---- MODULE Spec2Model ----
(***************************************************************************)
(* Model of the survey application in src/test1.py: the Flattener          *)
(* (flatten_nested_dict), the Sanitizer (sanitize_filename), the Column    *)
(* Orderer and Record Store (save_survey_data) and the Survey Controller   *)
(* (start_page, main).                                                     *)
(*                                                                         *)
(* Python strings are sequences of tokens.  A token is either a single     *)
(* character that the code treats specially (the separator "_", a blank,   *)
(* one of the characters sanitize_filename replaces) or a maximal run of   *)
(* other characters.  Concatenation is \o, `a in b` is contiguous          *)
(* sub-sequence, str.strip() drops leading and trailing blank tokens.      *)
(*                                                                         *)
(* Python values are tagged records: None, str, int and dict.  A dict is   *)
(* the sequence of its (key, value) items in insertion order.              *)
(***************************************************************************)
EXTENDS Integers, Sequences, FiniteSets, TLC

(***************************************************************************)
(* Values                                                                  *)
(***************************************************************************)
None == [tag |-> "none"]

StrVal(s) == [tag |-> "str", s |-> s]

IntVal(n) == [tag |-> "int", n |-> n]

Dict(items) == [tag |-> "dict", items |-> items]

Item(k, v) == [k |-> k, v |-> v]

Keys(d) == [i \in 1..Len(d.items) |-> d.items[i].k]

HasKey(d, key) == \E i \in 1..Len(d.items) : d.items[i].k = key

\* dict.get(key, default)
Get(d, key, default) ==
    IF HasKey(d, key)
    THEN d.items[CHOOSE i \in 1..Len(d.items) : d.items[i].k = key].v
    ELSE default

\* d[key] = v : an existing key keeps its position, a new key goes last
SetItem(d, key, v) ==
    IF HasKey(d, key)
    THEN Dict([i \in 1..Len(d.items) |->
                 IF d.items[i].k = key THEN Item(key, v) ELSE d.items[i]])
    ELSE Dict(Append(d.items, Item(key, v)))

\* dict.update(items), dict(items): a key keeps the position of its first
\* occurrence and takes the value of its last one
DictOfItems(acc, items) ==
    LET all == acc.items \o items
        IsFirst(i) == \A j \in 1..(i - 1) : all[j].k # all[i].k
        Last(i) == CHOOSE j \in i..Len(all) :
                       /\ all[j].k = all[i].k
                       /\ \A m \in (j + 1)..Len(all) : all[m].k # all[i].k
        firsts == SelectSeq([i \in 1..Len(all) |-> i], IsFirst)
    IN Dict([n \in 1..Len(firsts) |->
               Item(all[firsts[n]].k, all[Last(firsts[n])].v)])

RECURSIVE ConcatRange(_, _, _)
\* list.extend over ss[lo..hi]
ConcatRange(ss, lo, hi) ==
    IF lo > hi THEN <<>>
    ELSE IF lo = hi THEN ss[lo]
    ELSE LET mid == (lo + hi) \div 2
         IN ConcatRange(ss, lo, mid) \o ConcatRange(ss, mid + 1, hi)

(***************************************************************************)
(* Strings                                                                 *)
(***************************************************************************)
Whitespace == {" ", "\t", "\n"}

RECURSIVE lstrip(_)
lstrip(s) ==
    IF s # <<>> /\ Head(s) \in Whitespace THEN lstrip(Tail(s)) ELSE s

RECURSIVE rstrip(_)
rstrip(s) ==
    IF s # <<>> /\ s[Len(s)] \in Whitespace
    THEN rstrip(SubSeq(s, 1, Len(s) - 1)) ELSE s

\* str.strip()
strip(s) == rstrip(lstrip(s))

\* `needle in hay` for strings
Contains(needle, hay) ==
    \E i \in 0..(Len(hay) - Len(needle)) :
        SubSeq(hay, i + 1, i + Len(needle)) = needle

(***************************************************************************)
(* flatten_nested_dict                                                     *)
(***************************************************************************)
NA == <<"N", "/", "A">>

Sep == <<"_">>

\* NormalizeLeaf without the strip(): only None and '' become 'N/A'
NormalizeLeafNoStrip(v) ==
    IF v.tag = "none" \/ (v.tag = "str" /\ v.s = <<>>)
    THEN StrVal(NA) ELSE v

\* lines 56-57: None and blank strings become 'N/A'
NormalizeLeaf(v) ==
    IF v.tag = "none" \/ (v.tag = "str" /\ strip(v.s) = <<>>)
    THEN StrVal(NA) ELSE v

\* line 49
NewKey(parent_key, sep, k) ==
    IF parent_key # <<>> THEN parent_key \o sep \o k ELSE k

RECURSIVE flatten_nested_dict(_, _, _)
RECURSIVE FlattenItems(_, _, _)
\* lines 47-58: the list `items` built by the loop
FlattenItems(items, parent_key, sep) ==
    LET ForItem(i) ==
            LET new_key == NewKey(parent_key, sep, items[i].k)
            IN IF items[i].v.tag = "dict"
               THEN flatten_nested_dict(items[i].v, new_key, sep).items
               ELSE <<Item(new_key, NormalizeLeaf(items[i].v))>>
    IN ConcatRange([i \in 1..Len(items) |-> ForItem(i)], 1, Len(items))

\* line 60: dict(items)
flatten_nested_dict(nested_dict, parent_key, sep) ==
    DictOfItems(Dict(<<>>), FlattenItems(nested_dict.items, parent_key, sep))

(***************************************************************************)
(* sanitize_filename                                                       *)
(***************************************************************************)
InvalidChars == {"<", ">", ":", "\"", "/", "\\", "|", "?", "*"}

sanitize_filename(filename) ==
    strip([i \in 1..Len(filename) |->
             IF filename[i] \in InvalidChars THEN "_" ELSE filename[i]])

(***************************************************************************)
(* Names used by the survey                                                *)
(***************************************************************************)
PropertySection == <<"Property Ownership and Legal Documents">>

TrustSection == <<"Trust", "/", "Society Details & Documents">>

InstitutionSection == <<"Institutions Details & Documents">>

AshramNameKey == <<"ashram", "_", "name">>

TimestampKey == <<"timestamp">>

UnknownAshram == <<"Unknown", "_", "Ashram">>

\* every token that occurs in a column name, in Python's string order
TokenOrder ==
    << "/", "Institutions Details & Documents",
       "Property Ownership and Legal Documents",
       "Society Details & Documents", "Trust", "_", "a", "additional",
       "amc", "approvals", "approved", "ashram", "b", "bank", "building",
       "card", "cert", "certificate", "comments", "darpan", "deed", "deeds",
       "details", "documents", "electricity", "file", "gov", "government",
       "income", "inst", "institution", "kyc", "land", "meeting",
       "minority", "mou", "mutation", "na", "name", "noc", "number",
       "occupancy", "of", "pan", "permit", "plans", "property", "province",
       "registration", "renewal", "renovation", "reports", "resolution",
       "sanction", "sketch", "society", "survey", "tax", "timestamp",
       "title", "trust", "type", "uploaded" >>

TokenIndex ==
    [t \in {TokenOrder[i] : i \in 1..Len(TokenOrder)} |->
        CHOOSE i \in 1..Len(TokenOrder) : TokenOrder[i] = t]

TokenRank(t) == TokenIndex[t]

\* a < b for strings
StrLess(a, b) ==
    LET n == IF Len(a) < Len(b) THEN Len(a) ELSE Len(b)
        diff == {i \in 1..n : a[i] # b[i]}
    IN IF diff = {} THEN Len(a) < Len(b)
       ELSE LET i == CHOOSE x \in diff : \A y \in diff : x <= y
            IN TokenRank(a[i]) < TokenRank(b[i])

\* sorted(columns)
sorted(columns) == SortSeq(columns, StrLess)

Range(seq) == {seq[i] : i \in 1..Len(seq)}

InSeq(x, seq) == x \in Range(seq)

(***************************************************************************)
(* save_survey_data: the column order, lines 98-115                        *)
(***************************************************************************)
\* the section list with the Trust section ahead of the Property section
sectionsSwapped ==
    <<AshramNameKey, TrustSection, PropertySection, InstitutionSection>>

\* lines 102-107
sections == <<AshramNameKey, PropertySection, TrustSection, InstitutionSection>>

\* line 110
section_columns(section, columns) ==
    LET Matches(col) == Contains(section, col)
    IN SelectSeq(columns, Matches)

RECURSIVE ExtendSections(_, _, _)
\* lines 109-111
ExtendSections(column_order, secs, columns) ==
    IF secs = <<>> THEN column_order
    ELSE ExtendSections(
             column_order \o sorted(section_columns(Head(secs), columns)),
             Tail(secs), columns)

\* line 114
remaining_columns(column_order, columns) ==
    LET placed == Range(column_order)
        NotPlaced(col) == col \notin placed
    IN SelectSeq(columns, NotPlaced)

\* lines 99-115
ColumnOrder(columns) ==
    LET grouped == ExtendSections(<<TimestampKey>>, sections, columns)
    IN grouped \o remaining_columns(grouped, columns)

(***************************************************************************)
(* save_survey_data: the clock, the file name, the whole function          *)
(***************************************************************************)
TicksPerSecond == 2

\* the clock is read in ticks; strftime keeps whole seconds only
Second(now) == now \div TicksPerSecond

\* line 78: strftime("%Y-%m-%d %H:%M:%S")
StampCell(now) == <<ToString(Second(now))>>

\* line 87: strftime("%Y%m%d_%H%M%S")
StampFile(now) == <<ToString(Second(now))>>

\* line 88
FileName(safe_ashram_name, now) ==
    safe_ashram_name \o <<"_">> \o StampFile(now) \o <<".xlsx">>

NoFile == <<>>

\* what one call of save_survey_data does: `raised` is an exception that
\* leaves the function, `ret` its return value, `wrote` whether to_excel
\* put the file `filename` in place, `columns` and `row` the table written
Raised == [raised |-> TRUE, ret |-> "none", wrote |-> FALSE,
           mkdir |-> FALSE, filename |-> NoFile, columns |-> <<>>,
           row |-> Dict(<<>>)]

save_survey_data(survey_data, now1, now2, mkdir_ok, write_ok) ==
    LET stamped == SetItem(survey_data, TimestampKey, StrVal(StampCell(now1)))
        ashram_name == Get(stamped, AshramNameKey, StrVal(UnknownAshram))
    IN  IF ~mkdir_ok
        THEN Raised                                   \* line 75, OSError
        ELSE IF ashram_name.tag # "str"
        THEN [Raised EXCEPT !.mkdir = TRUE]           \* line 84, TypeError
        ELSE
        LET safe_ashram_name == sanitize_filename(ashram_name.s)
            filename == FileName(safe_ashram_name, now2)
            flat_entry == flatten_nested_dict(stamped, <<>>, Sep)
            columns == Keys(flat_entry)
            column_order == ColumnOrder(columns)
            key_error == ~(Range(column_order) \subseteq Range(columns))
        IN  IF key_error \/ ~write_ok
            THEN [raised |-> FALSE, ret |-> "False", wrote |-> FALSE,
                  mkdir |-> TRUE, filename |-> filename,
                  columns |-> column_order, row |-> flat_entry]
            ELSE [raised |-> FALSE, ret |-> "True", wrote |-> TRUE,
                  mkdir |-> TRUE, filename |-> filename,
                  columns |-> column_order, row |-> flat_entry]

(***************************************************************************)
(* The question sets: input_section and the three section pages            *)
(***************************************************************************)
Key2(a, b) == <<a, "_", b>>

Key3(a, b, c) == <<a, "_", b, "_", c>>

NumberOfDocuments == Key3("number", "of", "documents")

UploadedFileName == Key3("uploaded", "file", "name")

AdditionalComments == Key2("additional", "comments")

\* what the user has put into the widgets of one checklist item
Widgets(num, upload, comment) ==
    [num |-> num, upload |-> upload, comment |-> comment]

\* lines 155-176; w.upload is None while no file is picked
input_section(w, add_comment) ==
    LET r1 == SetItem(Dict(<<>>), NumberOfDocuments, StrVal(w.num))
        r2 == IF w.upload # None
              THEN SetItem(r1, UploadedFileName, w.upload) ELSE r1
        r3 == IF add_comment
              THEN SetItem(r2, AdditionalComments, StrVal(w.comment)) ELSE r2
    IN r3

\* the checklist items of a page that are modelled: the first MaxItems
MaxItems == 2

Shown(keys) ==
    SubSeq(keys, 1, IF Len(keys) < MaxItems THEN Len(keys) ELSE MaxItems)

\* responses[key] = input_section(...) for each key of `keys` in turn
InputSections(responses, keys, w, add_comment) ==
    DictOfItems(responses,
                [i \in 1..Len(Shown(keys)) |->
                    Item(Shown(keys)[i], input_section(w, add_comment))])

\* lines 188-199
PropertyItems ==
    << Key2("land", "title"), Key2("property", "tax"), Key2("land", "survey"),
       Key2("mutation", "cert"), Key2("land", "na"),
       Key2("registration", "details"), Key2("building", "permit"),
       Key2("occupancy", "cert"), Key2("approved", "plans"),
       Key2("renovation", "approvals") >>

\* lines 209-219
TrustItems ==
    << Key2("trust", "deed"), Key2("minority", "certificate"),
       Key3("deed", "society", "cert"), Key2("society", "renewal"),
       Key2("noc", "government"), Key2("pan", "card"), Key2("amc", "mou"),
       Key2("income", "tax"), Key3("bank", "kyc", "resolution"),
       Key2("darpan", "cert"), Key3("trust", "meeting", "reports") >>

\* lines 232-240
InstitutionItems ==
    << Key2("gov", "approvals"), Key2("sanction", "province"),
       Key2("electricity", "sanction"), Key2("property", "deeds"),
       Key2("land", "sketch"), Key2("land", "tax"), Key2("building", "tax"),
       Key3("land", "na", "inst"), Key2("mutation", "inst") >>

\* line 229: the options of the selectbox
InstitutionTypes ==
    << <<"Schools">>, <<"College">>, <<"Social Institutions">>, <<"Others">> >>

\* lines 178-201
property_survey(a) ==
    InputSections(SetItem(Dict(<<>>), AshramNameKey, StrVal(a.name)),
                  PropertyItems, a.w, TRUE)

\* lines 203-221
trust_society_survey(a) ==
    InputSections(Dict(<<>>), TrustItems, a.w, FALSE)

\* lines 223-242
institution_survey(a) ==
    InputSections(
        SetItem(SetItem(Dict(<<>>), Key2("institution", "type"),
                        StrVal(a.type)),
                Key2("institution", "name"), StrVal(a.name)),
        InstitutionItems, a.w, FALSE)

\* lines 259-263 and 272: categories[choice]()
categories == <<PropertySection, TrustSection, InstitutionSection>>

Sections == {categories[i] : i \in 1..Len(categories)}

RunSection(choice, a) ==
    IF choice = PropertySection THEN property_survey(a)
    ELSE IF choice = TrustSection THEN trust_society_survey(a)
    ELSE institution_survey(a)

(***************************************************************************)
(* Bounds and the inputs of the model                                      *)
(***************************************************************************)
MaxClock == 2

MaxSubmits == 2

MaxDepth == 2

Blank == <<>>

\* what the user may type as the name of the ashram
AshramNames == {Blank, <<"St. Mary">>}

DefaultWidgets == Widgets(Blank, None, Blank)

FilledWidgets == Widgets(<<"2">>, StrVal(<<"deed.pdf">>), <<"seen">>)

WidgetInputs == {DefaultWidgets, FilledWidgets}

\* the widget values of one section page
PageInputs(choice) ==
    IF choice = PropertySection
    THEN {[name |-> n, w |-> w] : n \in AshramNames, w \in WidgetInputs}
    ELSE IF choice = TrustSection
    THEN {[w |-> w] : w \in WidgetInputs}
    ELSE {[type |-> InstitutionTypes[1], name |-> Blank,
           w |-> DefaultWidgets],
          [type |-> InstitutionTypes[2], name |-> <<"School">>,
           w |-> FilledWidgets]}

\* the widget values of a page nobody has touched yet
DefaultInputs(choice) ==
    IF choice = PropertySection
    THEN [name |-> Blank, w |-> DefaultWidgets]
    ELSE IF choice = TrustSection
    THEN [w |-> DefaultWidgets]
    ELSE [type |-> InstitutionTypes[1], name |-> Blank, w |-> DefaultWidgets]

(***************************************************************************)
(* State                                                                   *)
(***************************************************************************)
VARIABLES
    survey_started,  \* "survey_started" in st.session_state
    survey_data,     \* st.session_state.survey_data, Absent until set
    choice,          \* the value of the radio widget
    clock,           \* datetime.now(), in ticks
    results_dir,     \* the directory SURVEY_RESULTS_DIR exists
    files,           \* the files in it: name and the save that wrote it
    saves,           \* number of calls of save_survey_data that returned True
    submits,         \* number of runs of main with the submit button pressed
    run,             \* what the latest run of the script did
    arg,             \* argument of a direct call of a function
    out              \* its result

vars == <<survey_started, survey_data, choice, clock, results_dir, files,
          saves, submits, run, arg, out>>

Absent == [tag |-> "absent"]

\* a run of the script that did not reach the submit handler
NoSubmit == [button |-> FALSE, built |-> FALSE, called |-> FALSE,
             record |-> Dict(<<>>), res |-> Raised]

(***************************************************************************)
(* main                                                                    *)
(***************************************************************************)
\* a radio widget that starts on the second option
RadioDefaultSecond == categories[2]

\* line 269: st.radio shows the first option until the user picks another
RadioDefault == categories[1]

AllNone ==
    Dict(<<Item(PropertySection, None), Item(TrustSection, None),
           Item(InstitutionSection, None)>>)

\* the initialisation without its guard: every run starts from empty slots
InitSurveyDataEveryRun(sd) == AllNone

\* lines 251-256
InitSurveyData(sd) ==
    IF sd = Absent THEN AllNone ELSE sd

\* line 275
StoreSection(sd, c, responses) == SetItem(sd, c, responses)

\* a record that leaves out the sections never visited
final_survey_data_visited(sd) ==
    LET slots == <<Item(PropertySection, Get(sd, PropertySection, None)),
                   Item(TrustSection, Get(sd, TrustSection, None)),
                   Item(InstitutionSection,
                        Get(sd, InstitutionSection, None))>>
        Visited(it) == it.v # None
    IN Dict(<<Item(AshramNameKey,
                   Get(Get(sd, PropertySection, None), AshramNameKey,
                       StrVal(NA)))>> \o SelectSeq(slots, Visited))

\* lines 280-285; evaluated only when the Property slot is a dict
final_survey_data(sd) ==
    Dict(<< Item(AshramNameKey,
                 Get(Get(sd, PropertySection, None), AshramNameKey,
                     StrVal(NA))),
            Item(PropertySection, Get(sd, PropertySection, None)),
            Item(TrustSection, Get(sd, TrustSection, None)),
            Item(InstitutionSection, Get(sd, InstitutionSection, None)) >>)

\* the handler without the test of the button: every run submits
SubmitHandlerEveryRun(sd, button, now1, now2, mkdir_ok, write_ok) ==
    IF Get(sd, PropertySection, None).tag # "dict"
    THEN [button |-> button, built |-> FALSE, called |-> FALSE,
          record |-> Dict(<<>>), res |-> Raised]
    ELSE [button |-> button, built |-> TRUE, called |-> TRUE,
          record |-> final_survey_data(sd),
          res |-> save_survey_data(final_survey_data(sd), now1, now2,
                                   mkdir_ok, write_ok)]

\* lines 278-288
SubmitHandler(sd, button, now1, now2, mkdir_ok, write_ok) ==
    IF ~button THEN NoSubmit
    ELSE IF Get(sd, PropertySection, None).tag # "dict"
    THEN [button |-> TRUE, built |-> FALSE, called |-> FALSE,
          record |-> Dict(<<>>), res |-> Raised]    \* line 281, AttributeError
    ELSE [button |-> TRUE, built |-> TRUE, called |-> TRUE,
          record |-> final_survey_data(sd),
          res |-> save_survey_data(final_survey_data(sd), now1, now2,
                                   mkdir_ok, write_ok)]

\* to_excel replaces a file of the same name
WriteFile(fs, name, owner) ==
    {f \in fs : f.name # name} \cup {[name |-> name, owner |-> owner]}

\* the effect of one call of save_survey_data on the world
Effects(res) ==
    /\ results_dir' = (results_dir \/ res.mkdir)
    /\ saves' = IF res.wrote THEN saves + 1 ELSE saves
    /\ files' = IF res.wrote THEN WriteFile(files, res.filename, saves + 1)
                ELSE files

\* os.makedirs(exist_ok=True) cannot fail on a directory that exists
MkdirOutcomes == IF results_dir THEN {TRUE} ELSE BOOLEAN

\* lines 250-288: one run of main past the start page
Main(c, responses, button, now1, now2, mkdir_ok, write_ok) ==
    LET sd == StoreSection(InitSurveyData(survey_data), c, responses)
        r == SubmitHandler(sd, button, now1, now2, mkdir_ok, write_ok)
    IN  /\ survey_data' = sd
        /\ choice' = c
        /\ run' = r
        /\ submits' = IF button THEN submits + 1 ELSE submits
        /\ IF r.called THEN Effects(r.res)
           ELSE UNCHANGED <<results_dir, saves, files>>

\* the state before the first interaction, but for `arg`
InitSession ==
    /\ survey_started = FALSE
    /\ survey_data = Absent
    /\ choice = RadioDefault
    /\ clock = 0
    /\ results_dir = FALSE
    /\ files = {}
    /\ saves = 0
    /\ submits = 0
    /\ run = NoSubmit
    /\ out = Dict(<<>>)

Init ==
    /\ InitSession
    /\ arg = Dict(<<>>)

\* lines 151-153 and the run that st.rerun() starts
StartSurvey ==
    /\ ~survey_started
    /\ survey_started' = TRUE
    /\ Main(RadioDefault, RunSection(RadioDefault, DefaultInputs(RadioDefault)),
            FALSE, clock, clock, TRUE, TRUE)
    /\ UNCHANGED <<clock, arg, out>>

\* the user changes a widget of the page shown; the script runs again
EditAnswers ==
    /\ survey_started
    /\ \E a \in PageInputs(choice) :
           Main(choice, RunSection(choice, a), FALSE, clock, clock, TRUE, TRUE)
    /\ UNCHANGED <<survey_started, clock, arg, out>>

\* the user picks another radio option; the script runs again
SelectSection ==
    /\ survey_started
    /\ \E c \in Sections \ {choice} :
       \E a \in PageInputs(c) :
           Main(c, RunSection(c, a), FALSE, clock, clock, TRUE, TRUE)
    /\ UNCHANGED <<survey_started, clock, arg, out>>

\* the user presses 'Submit Entire Survey'; the widgets keep their values,
\* the clock may advance between the two calls of datetime.now()
Submit ==
    /\ survey_started
    /\ submits < MaxSubmits
    /\ \E d \in 0..1 : \E mkdir_ok \in MkdirOutcomes : \E write_ok \in BOOLEAN :
           /\ clock + d <= MaxClock
           /\ Main(choice, Get(survey_data, choice, None), TRUE,
                   clock, clock + d, mkdir_ok, write_ok)
           /\ clock' = clock + d
    /\ UNCHANGED <<survey_started, arg, out>>

\* time passes
Tick ==
    /\ clock < MaxClock
    /\ clock' = clock + 1
    /\ UNCHANGED <<survey_started, survey_data, choice, results_dir, files,
                   saves, submits, run, arg, out>>

Next == StartSurvey \/ EditAnswers \/ SelectSection \/ Submit \/ Tick

Spec == Init /\ [][Next]_vars

(***************************************************************************)
(* flatten_nested_dict called on its own                                   *)
(***************************************************************************)
FlattenKeys == {<<"a">>, <<"a", "_", "a">>}

LeafValues ==
    {None, StrVal(<<>>), StrVal(<<" ">>), StrVal(<<" ", "x">>), IntVal(0)}

RECURSIVE NestedDicts(_)
\* nested mappings of at most `depth` levels and two keys per level
NestedDicts(depth) ==
    LET V == IF depth <= 1 THEN LeafValues
             ELSE LeafValues \cup NestedDicts(depth - 1)
    IN {Dict(<<>>)}
       \cup {Dict(<<Item(k, v)>>) : k \in FlattenKeys, v \in V}
       \cup {Dict(<<Item(kv[1], kv[3]), Item(kv[2], kv[4])>>) :
                kv \in {x \in FlattenKeys \X FlattenKeys \X V \X LeafValues :
                           x[1] # x[2]}}

FlattenInit ==
    /\ InitSession
    /\ arg \in NestedDicts(MaxDepth)

\* flat = flatten_nested_dict(arg)
Flatten ==
    /\ out = Dict(<<>>)
    /\ out' = [called |-> TRUE, flat |-> flatten_nested_dict(arg, <<>>, Sep)]
    /\ UNCHANGED <<survey_started, survey_data, choice, clock, results_dir,
                   files, saves, submits, run, arg>>

FlattenNext == Flatten

FlattenSpec == FlattenInit /\ [][FlattenNext]_vars

(***************************************************************************)
(* save_survey_data called on its own                                      *)
(***************************************************************************)
\* the records a caller may pass: with or without a name, sections or not
NameOptions ==
    {Absent, None, StrVal(NA), StrVal(Blank), StrVal(<<"St. Mary">>),
     StrVal(<<"A", "/", "B">>)}

SurveyRecord(n, p, t, i) ==
    Dict((IF n = Absent THEN <<>> ELSE <<Item(AshramNameKey, n)>>)
         \o <<Item(PropertySection, p), Item(TrustSection, t),
              Item(InstitutionSection, i)>>)

SurveyRecords ==
    {Dict(<<>>), Dict(<<Item(AshramNameKey, StrVal(NA))>>)}
    \cup {SurveyRecord(n, p, t, i) :
             n \in NameOptions,
             p \in {None, RunSection(PropertySection,
                                     DefaultInputs(PropertySection))},
             t \in {None, RunSection(TrustSection,
                                     DefaultInputs(TrustSection))},
             i \in {None, RunSection(InstitutionSection,
                                     DefaultInputs(InstitutionSection))}}

StoreInit ==
    /\ InitSession
    /\ arg \in SurveyRecords

\* save_survey_data(arg)
CallSave ==
    /\ saves < MaxSubmits
    /\ \E d \in 0..1 : \E mkdir_ok \in MkdirOutcomes : \E write_ok \in BOOLEAN :
           LET res == save_survey_data(arg, clock, clock + d,
                                       mkdir_ok, write_ok)
           IN /\ clock + d <= MaxClock
              /\ clock' = clock + d
              /\ out' = [called |-> TRUE, res |-> res]
              /\ Effects(res)
    /\ UNCHANGED <<survey_started, survey_data, choice, submits, run, arg>>

StoreNext == CallSave \/ Tick

StoreSpec == StoreInit /\ [][StoreNext]_vars

(***************************************************************************)
(* Properties                                                              *)
(***************************************************************************)
Called == "called" \in DOMAIN out

Slot(section) == Get(survey_data, section, None)

Count(x, seq) == Cardinality({i \in 1..Len(seq) : seq[i] = x})

IsPrefix(p, seq) == Len(p) <= Len(seq) /\ SubSeq(seq, 1, Len(p)) = p

\* a run of main that wrote a table
Wrote == run.called /\ ~run.res.raised

\* C1: after a submit, every key of the flattened record appears exactly
\* once in the column order of the table written.
C1_EveryKeyExactlyOnce ==
    Wrote => \A k \in Range(Keys(run.res.row)) :
                 Count(k, run.res.columns) = 1

\* C2: every call of save_survey_data that returned True still has the file
\* it wrote: no later call has used the same file name and replaced it.
C2_NoSaveOverwritten ==
    \A id \in 1..saves : \E f \in files : f.owner = id

\* C3: no error leaves the submit handler: a run with the button pressed
\* reaches save_survey_data, which returns True or False, and the survey
\* stays started.
C3_NoErrorEscapes ==
    run.button => /\ run.called
                  /\ ~run.res.raised
                  /\ run.res.ret \in {"True", "False"}
                  /\ survey_started

\* C4: a run with the button pressed calls save_survey_data whichever
\* sections have been visited; a section never visited is None in the
\* record and 'N/A' under the section's name in the flattened record.
C4_PartialSubmit ==
    run.button =>
        /\ run.called
        /\ \A sec \in Sections :
               Slot(sec) = None =>
                   /\ Get(run.record, sec, Absent) = None
                   /\ ~run.res.raised =>
                          Get(run.res.row, sec, Absent) = StrVal(NA)

C4_Witness ==
    /\ run.button /\ Wrote
    /\ Slot(TrustSection) = None
    /\ Slot(InstitutionSection) = None
    /\ Get(run.res.row, TrustSection, Absent) = StrVal(NA)

\* C5 as stated: a record has been built only when all three section slots
\* are non-null.
C5_RecordOnlyWhenAllVisited ==
    run.built => \A sec \in Sections : Slot(sec) # None

\* C5 amended: a run builds exactly one record when the button is pressed
\* and none otherwise, and a record is built only when the Property slot is
\* non-null; the other two slots may be null.
C5_RecordPerSubmit ==
    /\ run.built <=> run.button
    /\ run.built => Slot(PropertySection).tag = "dict"

C5_Witness ==
    /\ run.built
    /\ Slot(TrustSection) = None
    /\ Slot(InstitutionSection).tag = "dict"

\* C6: a run of main writes the slot of the chosen section only: the slots
\* of the other two sections keep their values.
C6_OtherSlotsKept ==
    [][survey_data # Absent =>
          \A sec \in Sections :
              sec # choice' => Get(survey_data', sec, Absent) = Slot(sec)]_vars

C6_Witness ==
    /\ survey_started
    /\ choice = TrustSection
    /\ Slot(PropertySection).tag = "dict"
    /\ Slot(InstitutionSection).tag = "dict"
    /\ Get(Slot(PropertySection), AshramNameKey, None) # StrVal(Blank)

\* the scalar leaves of a nested mapping, each with the keys leading to it
RECURSIVE LeafList(_, _)
LeafList(d, path) ==
    LET Under(i) ==
            IF d.items[i].v.tag = "dict"
            THEN LeafList(d.items[i].v, Append(path, d.items[i].k))
            ELSE <<[path |-> Append(path, d.items[i].k), v |-> d.items[i].v]>>
    IN ConcatRange([i \in 1..Len(d.items) |-> Under(i)], 1, Len(d.items))

RECURSIVE JoinPath(_)
\* the keys of a path joined with '_'
JoinPath(path) ==
    IF Len(path) = 1 THEN path[1]
    ELSE JoinPath(SubSeq(path, 1, Len(path) - 1)) \o <<"_">> \o path[Len(path)]

IsBlankLeaf(v) ==
    v.tag = "none" \/ (v.tag = "str" /\ \A i \in 1..Len(v.s) : v.s[i] \in Whitespace)

NoDuplicateCompoundKeys(d) ==
    LET leaves == LeafList(d, <<>>)
    IN \A i, j \in 1..Len(leaves) :
           i # j => JoinPath(leaves[i].path) # JoinPath(leaves[j].path)

EmptyRecord(d) ==
    /\ \A sec \in Sections : Get(d, sec, Absent) = None
    /\ Get(d, AshramNameKey, Absent) = StrVal(NA)

\* C8 as stated: saving an empty record writes the columns 'timestamp' and
\* 'ashram_name' only, with ashram_name 'N/A'.
C8_EmptyRecordTwoColumns ==
    (Called /\ EmptyRecord(arg) /\ out.res.ret = "True") =>
        /\ out.res.columns = <<TimestampKey, AshramNameKey>>
        /\ Get(out.res.row, AshramNameKey, Absent) = StrVal(NA)

\* C8 amended: saving an empty record writes one row with the columns
\* 'timestamp', 'ashram_name' and then one column per section, named by the
\* section, in the order Property, Trust, Institutions; ashram_name and the
\* three section columns hold 'N/A'.
C8_EmptyRecordFiveColumns ==
    (Called /\ EmptyRecord(arg) /\ out.res.ret = "True") =>
        /\ out.res.columns = <<TimestampKey, AshramNameKey, PropertySection,
                               TrustSection, InstitutionSection>>
        /\ Len(out.res.row.items) = 5
        /\ \A c \in Sections \cup {AshramNameKey} :
               Get(out.res.row, c, Absent) = StrVal(NA)
        /\ \E f \in files : f.name = out.res.filename

C8_Witness ==
    Called /\ EmptyRecord(arg) /\ out.res.ret = "True" /\ out.res.wrote

\* C9: when the user has given no ashram name, the file written by a submit
\* has a name that begins with 'Unknown_Ashram_'.
C9_UnknownAshramPrefix ==
    (Wrote /\ Get(Slot(PropertySection), AshramNameKey, Absent) = StrVal(Blank))
        => IsPrefix(UnknownAshram \o <<"_">>, run.res.filename)

\* C10: whenever the submit button is handled, the Property slot of the
\* session state is a mapping, not None.
C10_PropertySlotSet ==
    run.button => /\ survey_data # Absent
                  /\ Slot(PropertySection).tag = "dict"

C10_Witness ==
    /\ run.button
    /\ choice # PropertySection
    /\ Slot(PropertySection).tag = "dict"

====
